---- MODULE Spec2Model ----
(***************************************************************************)
(* Model of mistral-ocr: the CLI entry point ocr_pdf (main.py), the web    *)
(* entry point process_file (web.py) and the functions they share          *)
(* (validate_options, process_image, process_pdf, extract_images_to_dir,   *)
(* create_inline_image_map, generate_output_content, save_output).         *)
(*                                                                         *)
(* Text is modelled by TLA+ strings, character by character (Len, SubSeq   *)
(* and \o), bytes by sequences of integers 0..255, a Python dict by the    *)
(* sequence of its <<key, value>> pairs in insertion order.                *)
(***************************************************************************)
EXTENDS Integers, Sequences, FiniteSets, TLC

(***************************************************************************)
(* Bounds of the model.                                                    *)
(***************************************************************************)
\* number of pages of a response
MaxPages == 2

(***************************************************************************)
(* Python values: None, and the three shapes a field of a serialized image *)
(* entry can take (key absent, key present with null, key with a string).  *)
(***************************************************************************)
None == <<"None">>
Absent == <<"absent">>
Null == <<"null">>
Str(s) == <<"str", s>>
IsStr(v) == Len(v) = 2
StrOf(v) == v[2]
\* an exception object, by the name of its class or of the call that raised it
Exc(name) == <<"exc", name>>
\* bool(v) of an optional string: None and "" are falsy
Truthy(v) == v # None /\ v # Str("")

(***************************************************************************)
(* str methods                                                             *)
(***************************************************************************)
CharAt(s, i) == SubSeq(s, i, i)

\* s.startswith(p)
StartsWith(s, p) == Len(s) >= Len(p) /\ SubSeq(s, 1, Len(p)) = p

\* s[i:i+len(p)] == p
OccursAt(s, p, i) == i >= 1 /\ i + Len(p) - 1 <= Len(s) /\ SubSeq(s, i, i + Len(p) - 1) = p

\* s.find(p, from) with 1-based positions, 0 when p does not occur
Find(s, p, from) ==
    IF \E i \in from..Len(s) : OccursAt(s, p, i)
    THEN CHOOSE i \in from..Len(s) :
             OccursAt(s, p, i) /\ \A j \in from..(i - 1) : ~OccursAt(s, p, j)
    ELSE 0

\* p in s
Contains(s, p) == Find(s, p, 1) # 0

\* s.rfind(p), 0 when p does not occur
RFind(s, p) ==
    IF Contains(s, p)
    THEN CHOOSE i \in 1..Len(s) :
             OccursAt(s, p, i) /\ \A j \in (i + 1)..Len(s) : ~OccursAt(s, p, j)
    ELSE 0

UpperCase == "ABCDEFGHIJKLMNOPQRSTUVWXYZ"
LowerCase == "abcdefghijklmnopqrstuvwxyz"

LowerChar(c) ==
    IF \E i \in 1..26 : CharAt(UpperCase, i) = c
    THEN CharAt(LowerCase, CHOOSE i \in 1..26 : CharAt(UpperCase, i) = c)
    ELSE c

RECURSIVE Lower(_)
\* s.lower()
Lower(s) == IF s = "" THEN "" ELSE LowerChar(CharAt(s, 1)) \o Lower(SubSeq(s, 2, Len(s)))

\* s.split(sep, 1)[1]: the text after the first sep; IndexError without a sep
SplitAfterFirst(s, sep) == SubSeq(s, Find(s, sep, 1) + Len(sep), Len(s))

\* s.split(".")[-1]: the text after the last "."
SplitLast(s, sep) == SubSeq(s, RFind(s, sep) + Len(sep), Len(s))

(***************************************************************************)
(* base64.b64decode(s) (validate=False): characters outside the alphabet   *)
(* are discarded, the rest is decoded four characters to three bytes; a    *)
(* group left incomplete without its padding raises binascii.Error.        *)
(***************************************************************************)
B64Alphabet == "ABCDEFGHIJKLMNOPQRSTUVWXYZabcdefghijklmnopqrstuvwxyz0123456789+/"

IsB64Char(c) == \E i \in 1..64 : CharAt(B64Alphabet, i) = c
B64Value(c) == (CHOOSE i \in 1..64 : CharAt(B64Alphabet, i) = c) - 1

RECURSIVE B64Digits(_)
\* the 6-bit values of the alphabet characters of s, in order
B64Digits(s) ==
    IF s = "" THEN <<>>
    ELSE LET c == CharAt(s, 1)
             rest == B64Digits(SubSeq(s, 2, Len(s)))
         IN IF IsB64Char(c) THEN <<B64Value(c)>> \o rest ELSE rest

RECURSIVE CountChar(_, _)
CountChar(s, c) ==
    IF s = "" THEN 0
    ELSE (IF CharAt(s, 1) = c THEN 1 ELSE 0) + CountChar(SubSeq(s, 2, Len(s)), c)

RECURSIVE B64Bytes(_)
\* the bytes of a sequence of 6-bit values
B64Bytes(d) ==
    IF Len(d) >= 4
    THEN << d[1] * 4 + (d[2] \div 16),
            (d[2] % 16) * 16 + (d[3] \div 4),
            (d[3] % 4) * 64 + d[4] >> \o B64Bytes(SubSeq(d, 5, Len(d)))
    ELSE IF Len(d) = 3
    THEN << d[1] * 4 + (d[2] \div 16), (d[2] % 16) * 16 + (d[3] \div 4) >>
    ELSE IF Len(d) = 2
    THEN << d[1] * 4 + (d[2] \div 16) >>
    ELSE <<>>

\* b64decode raises binascii.Error ("Incorrect padding")
B64Raises(s) ==
    LET n == Len(B64Digits(s)) % 4
        pads == CountChar(s, "=")
    IN \/ n = 1
       \/ n = 2 /\ pads < 2
       \/ n = 3 /\ pads < 1

b64decode(s) == B64Bytes(B64Digits(s))

(***************************************************************************)
(* dict: the sequence of <<key, value>> pairs in insertion order.          *)
(***************************************************************************)
DictHas(d, k) == \E i \in 1..Len(d) : d[i][1] = k
DictGet(d, k) == d[CHOOSE i \in 1..Len(d) : d[i][1] = k][2]
DictKeys(d) == {d[i][1] : i \in 1..Len(d)}

\* d[k] = v: a new key is appended, an existing key keeps its position
DictSet(d, k, v) ==
    IF DictHas(d, k)
    THEN [i \in 1..Len(d) |-> IF d[i][1] = k THEN <<k, v>> ELSE d[i]]
    ELSE Append(d, <<k, v>>)

(***************************************************************************)
(* The serialized response (response_dict): a record with the list of      *)
(* pages; a page has its markdown text and its list of image entries; an   *)
(* image entry has the fields id and image_base64, each Absent, Null or a  *)
(* string.                                                                 *)
(***************************************************************************)
RECURSIVE AllImages(_)
\* the image entries in the order the two nested loops visit them
AllImages(pages) ==
    IF pages = <<>> THEN <<>> ELSE Head(pages).images \o AllImages(Tail(pages))

\* "id" in img and "image_base64" in img
HasBothKeys(img) == img.id # Absent /\ img.image_base64 # Absent

(***************************************************************************)
(* create_inline_image_map: one iteration of the inner loop, on the map    *)
(* built so far.  The result is the map and the exception raised, if any.  *)
(***************************************************************************)
InlineMimeExt(image_id) ==
    IF Contains(image_id, ".") THEN Lower(SplitLast(image_id, ".")) ELSE "jpeg"

InlineStep(acc, img) ==
    IF acc.exc # None \/ ~HasBothKeys(img) THEN acc
    ELSE IF img.image_base64 = Null
    THEN [acc EXCEPT !.exc = Exc("AttributeError")]       \* None.startswith
    ELSE LET image_data == StrOf(img.image_base64)
         IN IF StartsWith(image_data, "data:")
            THEN [acc EXCEPT !.map = DictSet(acc.map, img.id, image_data)]
            ELSE IF img.id = Null
            THEN [acc EXCEPT !.exc = Exc("TypeError")]    \* "." in None
            ELSE [acc EXCEPT !.map = DictSet(acc.map, img.id,
                     "data:image/" \o InlineMimeExt(StrOf(img.id))
                         \o ";base64," \o image_data)]

RECURSIVE InlineFold(_, _)
InlineFold(acc, imgs) ==
    IF imgs = <<>> THEN acc ELSE InlineFold(InlineStep(acc, Head(imgs)), Tail(imgs))

create_inline_image_map(response_dict) ==
    InlineFold([map |-> <<>>, exc |-> None], AllImages(response_dict.pages))

(***************************************************************************)
(* extract_images_to_dir: what one iteration of the inner loop does with   *)
(* an image entry, up to the write itself.                                 *)
(*   kind "skip"  : the entry is passed over                               *)
(*   kind "raise" : an exception before the file is opened                 *)
(*   kind "write" : the file named name is opened; bad is TRUE when        *)
(*                  b64decode then raises, bytes is what is written        *)
(***************************************************************************)
ExtractData(image_data) ==
    IF StartsWith(image_data, "data:image/")
    THEN SplitAfterFirst(image_data, ",")
    ELSE image_data

ExtractPlan(img) ==
    IF ~HasBothKeys(img) THEN [kind |-> "skip"]
    ELSE IF img.image_base64 = Null
    THEN [kind |-> "raise", exc |-> Exc("AttributeError")]     \* None.startswith
    ELSE LET image_data == StrOf(img.image_base64)
         IN IF StartsWith(image_data, "data:image/") /\ ~Contains(image_data, ",")
            THEN [kind |-> "raise", exc |-> Exc("IndexError")] \* split(",", 1)[1]
            ELSE IF img.id = Null
            THEN [kind |-> "raise", exc |-> Exc("TypeError")]  \* image_dir / None
            ELSE [kind |-> "write", name |-> StrOf(img.id),
                  bad |-> B64Raises(ExtractData(image_data)),
                  bytes |-> b64decode(ExtractData(image_data))]

\* image_dir / image_filename
PathJoin(dir, name) == dir \o "/" \o name

(***************************************************************************)
(* re.sub(r"!\[(.*?)\]\(" + re.escape(img_id) + r"\)",                     *)
(*        r"![\1](" + img_src + r")", markdown_text)                       *)
(* A match starts at a "![", its group (.*?) is the shortest text without  *)
(* a line break that is followed by "](" img_id ")"; matches are found     *)
(* left to right and do not overlap.  img_src is part of the replacement   *)
(* template, so a backslash in it is an escape.                            *)
(***************************************************************************)
\* re.escape(img_id) makes every character of img_id match itself only
ReEscapeMatches(img_id, text, i) == OccursAt(text, img_id, i)

\* the text "](" img_id ")" starts at position e
TailAt(text, img_id, e) ==
    /\ OccursAt(text, "](", e)
    /\ ReEscapeMatches(img_id, text, e + 2)
    /\ OccursAt(text, ")", e + 2 + Len(img_id))

\* a match starting at s ends with the tail at e
MatchAt(text, img_id, s, e) ==
    /\ OccursAt(text, "![", s)
    /\ e >= s + 2
    /\ TailAt(text, img_id, e)
    /\ ~Contains(SubSeq(text, s + 2, e - 1), "\n")

HasMatch(text, img_id, from) ==
    \E s \in from..Len(text) : \E e \in s..Len(text) : MatchAt(text, img_id, s, e)

\* leftmost start of a match at or after from
MatchStart(text, img_id, from) ==
    CHOOSE s \in from..Len(text) :
        /\ \E e \in s..Len(text) : MatchAt(text, img_id, s, e)
        /\ \A t \in from..(s - 1) : \A e \in t..Len(text) : ~MatchAt(text, img_id, t, e)

\* the non-greedy group ends at the first tail that fits
MatchTail(text, img_id, s) ==
    CHOOSE e \in s..Len(text) :
        /\ MatchAt(text, img_id, s, e)
        /\ \A f \in s..(e - 1) : ~MatchAt(text, img_id, s, f)

\* the replacement template raises re.error: a backslash at the end, or
\* before a letter or digit that is no escape (the escapes \a \b \v \0 and
\* \g<..> are outside the model: no text of the model has them)
RECURSIVE TemplateRaises(_)
TemplateRaises(src) ==
    IF src = "" THEN FALSE
    ELSE IF CharAt(src, 1) # "\\" THEN TemplateRaises(SubSeq(src, 2, Len(src)))
    ELSE IF Len(src) = 1 THEN TRUE
    ELSE IF CharAt(src, 2) \in {"1", "\\", "n", "t", "r", "f"}
         THEN TemplateRaises(SubSeq(src, 3, Len(src)))
    ELSE IF IsB64Char(CharAt(src, 2)) /\ CharAt(src, 2) \notin {"+", "/"} THEN TRUE
    ELSE TemplateRaises(SubSeq(src, 3, Len(src)))

RECURSIVE ExpandTemplate(_, _)
\* img_src as expanded in a replacement whose group 1 is group
ExpandTemplate(src, group) ==
    IF src = "" THEN ""
    ELSE IF CharAt(src, 1) # "\\" \/ Len(src) = 1
    THEN CharAt(src, 1) \o ExpandTemplate(SubSeq(src, 2, Len(src)), group)
    ELSE LET c == CharAt(src, 2)
             rest == ExpandTemplate(SubSeq(src, 3, Len(src)), group)
         IN IF c = "1" THEN group \o rest
            ELSE IF c = "\\" THEN "\\" \o rest
            ELSE IF c = "n" THEN "\n" \o rest
            ELSE IF c = "t" THEN "\t" \o rest
            ELSE IF c = "r" THEN "\r" \o rest
            ELSE IF c = "f" THEN "\f" \o rest
            ELSE "\\" \o c \o rest

RECURSIVE ReSubFrom(_, _, _, _)
ReSubFrom(text, img_id, img_src, from) ==
    IF ~HasMatch(text, img_id, from) THEN SubSeq(text, from, Len(text))
    ELSE LET s == MatchStart(text, img_id, from)
             e == MatchTail(text, img_id, s)
             group == SubSeq(text, s + 2, e - 1)
         IN SubSeq(text, from, s - 1)
                \o "![" \o group \o "](" \o ExpandTemplate(img_src, group) \o ")"
                \o ReSubFrom(text, img_id, img_src, e + 2 + Len(img_id) + 1)

ReSub(text, img_id, img_src) == ReSubFrom(text, img_id, img_src, 1)

(***************************************************************************)
(* json.dumps(response_dict, indent=4)                                     *)
(***************************************************************************)
RECURSIVE JsonEscape(_)
JsonEscape(s) ==
    IF s = "" THEN ""
    ELSE LET c == CharAt(s, 1)
         IN (IF c = "\"" THEN "\\\""
             ELSE IF c = "\\" THEN "\\\\"
             ELSE IF c = "\n" THEN "\\n"
             ELSE c) \o JsonEscape(SubSeq(s, 2, Len(s)))

JsonString(s) == "\"" \o JsonEscape(s) \o "\""

JsonValue(v) == IF v = Null THEN "null" ELSE JsonString(StrOf(v))

RECURSIVE Indent(_)
Indent(n) == IF n = 0 THEN "" ELSE "    " \o Indent(n - 1)

\* a list of already serialized items, one per line at nesting depth n
RECURSIVE JsonItems(_, _)
JsonItems(items, n) ==
    IF items = <<>> THEN ""
    ELSE "\n" \o Indent(n) \o Head(items)
             \o (IF Len(items) > 1 THEN "," ELSE "") \o JsonItems(Tail(items), n)

JsonList(items, n) ==
    IF items = <<>> THEN "[]" ELSE "[" \o JsonItems(items, n + 1) \o "\n" \o Indent(n) \o "]"

JsonObject(items, n) ==
    IF items = <<>> THEN "{}" ELSE "{" \o JsonItems(items, n + 1) \o "\n" \o Indent(n) \o "}"

JsonImage(img, n) ==
    JsonObject(
        (IF img.id = Absent THEN <<>> ELSE <<"\"id\": " \o JsonValue(img.id)>>)
        \o (IF img.image_base64 = Absent THEN <<>>
            ELSE <<"\"image_base64\": " \o JsonValue(img.image_base64)>>), n)

JsonPage(page, n) ==
    JsonObject(<< "\"markdown\": " \o JsonString(page.markdown),
                  "\"images\": " \o JsonList([i \in 1..Len(page.images) |->
                                      JsonImage(page.images[i], n + 2)], n + 1) >>, n)

JsonDumps(response_dict) ==
    JsonObject(<< "\"pages\": " \o JsonList([i \in 1..Len(response_dict.pages) |->
                                      JsonPage(response_dict.pages[i], 2)], 1) >>, 0)

(***************************************************************************)
(* generate_html_content: the conversion is the markdown library's; the    *)
(* model keeps the text and wraps it in the document shell.                *)
(***************************************************************************)
generate_html_content(markdown_text) ==
    "<!DOCTYPE html><html><body>" \o markdown_text \o "</body></html>"

(***************************************************************************)
(* generate_output_content                                                 *)
(***************************************************************************)
RECURSIVE JoinPages(_)
\* "\n\n".join(markdown_contents)
JoinPages(pages) ==
    IF pages = <<>> THEN ""
    ELSE IF Len(pages) = 1 THEN Head(pages).markdown
    ELSE Head(pages).markdown \o "\n\n" \o JoinPages(Tail(pages))

RECURSIVE SubstituteAll(_, _)
\* the loop over image_map.items(), in insertion order
SubstituteAll(markdown_text, image_map) ==
    IF image_map = <<>> THEN markdown_text
    ELSE SubstituteAll(ReSub(markdown_text, StrOf(Head(image_map)[1]), Head(image_map)[2]),
                       Tail(image_map))

\* the loop raises: re.escape(None), or a bad replacement template
SubstituteRaises(image_map) ==
    \E i \in 1..Len(image_map) :
        image_map[i][1] = Null \/ TemplateRaises(image_map[i][2])

generate_output_raises(response_dict, output_format, image_map) ==
    output_format # "json" /\ SubstituteRaises(image_map)

\* variant that substitutes the image references in the JSON text as well
generate_output_content_json_substituted(response_dict, output_format, image_map) ==
    LET text == IF output_format = "json" THEN JsonDumps(response_dict)
                ELSE JoinPages(response_dict.pages)
        substituted == SubstituteAll(text, image_map)
    IN IF output_format = "html" THEN generate_html_content(substituted)
       ELSE substituted

generate_output_content(response_dict, output_format, image_map) ==
    IF output_format = "json" THEN JsonDumps(response_dict)
    ELSE LET markdown_text == SubstituteAll(JoinPages(response_dict.pages), image_map)
         IN IF output_format = "html"
            THEN generate_html_content(markdown_text)
            ELSE markdown_text

(***************************************************************************)
(* Inputs: the responses the OCR service may return.  Image entries cover  *)
(* raw base64 data, data URIs, identifiers with and without an extension,  *)
(* and entries whose fields are missing or null.                           *)
(***************************************************************************)
Image(id, data) == [id |-> id, image_base64 |-> data]

PageSet ==
    { [markdown |-> "# Title\n\n![a](img-0.jpeg)",
       images |-> << Image(Str("img-0.jpeg"), Str("QUJD")) >>],
      [markdown |-> "![x](a.PNG) ![y](axPNG) ![z](zz.png)",
       images |-> << Image(Absent, Str("QUJD")),
                     Image(Str("a.PNG"), Str("data:image/png;base64,QUJE")) >>],
      [markdown |-> "![f](fig.xyz)\n![n](noext)",
       images |-> << Image(Str("fig.xyz"), Str("QUI=")),
                     Image(Str("k.png"), Absent),
                     Image(Str("noext"), Str("QUJD")) >>],
      [markdown |-> "![r](raw.bin)",
       images |-> << Image(Str("raw.bin"), Str("data:text/plain;base64,QUJD")) >>],
      [markdown |-> "![n](n.png) ![a](img-0.jpeg)",
       images |-> << Image(Str("n.png"), Null),
                     Image(Str("img-0.jpeg"), Str("QUJD")) >>] }

RECURSIVE SeqsUpTo(_, _)
\* the sequences over S of length at most n
SeqsUpTo(S, n) ==
    IF n = 0 THEN {<<>>}
    ELSE LET shorter == SeqsUpTo(S, n - 1)
         IN shorter \cup {Append(q, x) : q \in shorter, x \in S}

Responses == {[pages |-> ps] : ps \in SeqsUpTo(PageSet, MaxPages)}

(***************************************************************************)
(* State of one invocation.                                                *)
(***************************************************************************)
VARIABLES
    entry,          \* "cli" (ocr_pdf) or "web" (process_file)
    opts,           \* the options of the invocation
    suffix,         \* Path(file).suffix of the input file
    pc,             \* position in the entry point
    calls,          \* the network calls issued so far, in order
    pdf_uploaded,   \* process_pdf's local uploaded_file
    pending,        \* the exception process_pdf's inner handler caught
    raised,         \* the exception that left process_image / process_pdf
    uploaded_file,  \* the entry point's local uploaded_file
    response,       \* what client.ocr.process returned
    response_dict,  \* json.loads(response.model_dump_json())
    dirs,           \* directories created
    fs,             \* files written: path -> bytes or text
    image_map,      \* the image map under construction / in use
    image_count,    \* extract_images_to_dir's image_count
    img_idx,        \* extract_images_to_dir's position in the image entries
    result,         \* what generate_output_content returned
    stdout,         \* what was printed to standard output
    error,          \* the exception the invocation ends with
    warnings,       \* warnings logged by the cleanup block
    outcome         \* "running", "success" or "error"

vars == << entry, opts, suffix, pc, calls, pdf_uploaded, pending, raised,
           uploaded_file, response, response_dict, dirs, fs, image_map,
           image_count, img_idx, result, stdout, error, warnings, outcome >>

OptStrings == {None, Str(""), Str("out")}

CliOptions ==
    [ api_key : {None, Str(""), Str("key")},
      output : OptStrings,
      output_dir : OptStrings,
      json_ : BOOLEAN, html : BOOLEAN,
      inline_images : BOOLEAN, extract_images : BOOLEAN,
      output_format : {None} ]

WebOptions ==
    [ api_key : {None, Str(" "), Str("key")},
      output : {None}, output_dir : {None},
      json_ : {FALSE}, html : {FALSE},
      inline_images : {FALSE}, extract_images : {FALSE},
      output_format : {Str("markdown"), Str("html")} ]

Suffixes == {".pdf", ".PNG", ".txt"}

TheFile == <<"file", "file-1">>
EmptyFs == [p \in {} |-> <<>>]

Init ==
    /\ entry \in {"cli", "web"}
    /\ opts \in (IF entry = "cli" THEN CliOptions ELSE WebOptions)
    /\ suffix \in Suffixes
    /\ pc = "start"
    /\ calls = <<>>
    /\ pdf_uploaded = None
    /\ pending = None
    /\ raised = None
    /\ uploaded_file = None
    /\ response = None
    /\ response_dict = None
    /\ dirs = {}
    /\ fs = EmptyFs
    /\ image_map = <<>>
    /\ image_count = 0
    /\ img_idx = 1
    /\ result = None
    /\ stdout = None
    /\ error = None
    /\ warnings = 0
    /\ outcome = "running"

\* variant of validate_options without the rule on --json with --output-dir
validate_options_without_json_rule(api_key, output, output_dir, json_, extract_images, inline_images) ==
    IF ~Truthy(api_key) THEN Exc("No API key provided")
    ELSE IF Truthy(output) /\ Truthy(output_dir)
    THEN Exc("Cannot specify both --output and --output-dir")
    ELSE IF extract_images /\ ~Truthy(output_dir)
    THEN Exc("--extract-images requires --output-dir")
    ELSE IF inline_images /\ extract_images
    THEN Exc("Cannot specify both --inline-images and --extract-images")
    ELSE None

(***************************************************************************)
(* validate_options: the exception it raises, None when it returns.        *)
(***************************************************************************)
validate_options(api_key, output, output_dir, json_, extract_images, inline_images) ==
    IF ~Truthy(api_key) THEN Exc("No API key provided")
    ELSE IF Truthy(output) /\ Truthy(output_dir)
    THEN Exc("Cannot specify both --output and --output-dir")
    ELSE IF json_ /\ Truthy(output_dir)
    THEN Exc("JSON output is not supported with --output-dir")
    ELSE IF extract_images /\ ~Truthy(output_dir)
    THEN Exc("--extract-images requires --output-dir")
    ELSE IF inline_images /\ extract_images
    THEN Exc("Cannot specify both --inline-images and --extract-images")
    ELSE None

\* input_file.suffix.lower() in ['.png', '.jpg', '.jpeg']
is_image == Lower(suffix) \in {".png", ".jpg", ".jpeg"}

\* "json" if json_ else "html" if html else "markdown"; the web parameter
output_format ==
    IF entry = "cli"
    THEN (IF opts.json_ THEN "json" ELSE IF opts.html THEN "html" ELSE "markdown")
    ELSE StrOf(opts.output_format)

include_images == opts.inline_images \/ opts.extract_images

\* the invocation ends
Finish(kind, exc) ==
    /\ pc' = "done"
    /\ outcome' = kind
    /\ error' = exc

(***************************************************************************)
(* ocr_pdf, lines 319-344: validation, then the choice of the variant.     *)
(***************************************************************************)
CliValidate ==
    /\ entry = "cli" /\ pc = "start"
    /\ LET v == validate_options(opts.api_key, opts.output, opts.output_dir,
                                 opts.json_, opts.extract_images, opts.inline_images)
       IN IF v # None
          THEN Finish("error", v)
          ELSE /\ pc' = IF is_image THEN "image_read" ELSE "pdf_read"
               /\ UNCHANGED << outcome, error >>
    /\ UNCHANGED << entry, opts, suffix, calls, pdf_uploaded, pending, raised,
                    uploaded_file, response, response_dict, dirs, fs, image_map,
                    image_count, img_idx, result, stdout, warnings >>

\* api_key.strip() == "" for a key of spaces
RECURSIVE Strip(_)
Strip(s) ==
    IF s # "" /\ CharAt(s, 1) = " " THEN Strip(SubSeq(s, 2, Len(s)))
    ELSE IF s # "" /\ CharAt(s, Len(s)) = " " THEN Strip(SubSeq(s, 1, Len(s) - 1))
    ELSE s

(***************************************************************************)
(* process_file, lines 32-83: the checks before the submission.            *)
(***************************************************************************)
WebStart ==
    /\ entry = "web" /\ pc = "start"
    /\ \E exists \in BOOLEAN :
        IF ~Truthy(opts.api_key) \/ Strip(StrOf(opts.api_key)) = ""
        THEN Finish("error", Exc("Please provide a valid Mistral API key"))
        ELSE IF ~exists
        THEN Finish("error", Exc("File not found or not accessible"))
        ELSE IF is_image
        THEN pc' = "image_read" /\ UNCHANGED << outcome, error >>
        ELSE IF Lower(suffix) = ".pdf"
        THEN pc' = "pdf_read" /\ UNCHANGED << outcome, error >>
        ELSE Finish("error", Exc("Unsupported file format"))
    /\ UNCHANGED << entry, opts, suffix, calls, pdf_uploaded, pending, raised,
                    uploaded_file, response, response_dict, dirs, fs, image_map,
                    image_count, img_idx, result, stdout, warnings >>

(***************************************************************************)
(* An exception leaves process_image / process_pdf.  ocr_pdf's handler     *)
(* (lines 370-372) wraps it in a ClickException and the cleanup block      *)
(* follows; process_file's handler (lines 101-103) returns it as an error  *)
(* text.                                                                   *)
(***************************************************************************)
Propagate(exc) ==
    /\ raised' = exc
    /\ IF entry = "cli"
       THEN pc' = "finally" /\ error' = exc /\ UNCHANGED outcome
       ELSE Finish("error", exc)

(***************************************************************************)
(* process_image                                                           *)
(***************************************************************************)
\* image_path.read_bytes() and the encoding
ImageRead ==
    /\ pc = "image_read"
    /\ \E ok \in BOOLEAN :
        IF ok THEN pc' = "image_ocr" /\ UNCHANGED << raised, error, outcome >>
        ELSE Propagate(Exc("read_bytes"))
    /\ UNCHANGED << entry, opts, suffix, calls, pdf_uploaded, pending,
                    uploaded_file, response, response_dict, dirs, fs,
                    image_map, image_count, img_idx, result, stdout,
                    warnings >>

\* client.ocr.process(document=ImageURLChunk(...))
ImageOcr ==
    /\ pc = "image_ocr"
    /\ calls' = Append(calls, "ocr")
    /\ \/ /\ \E r \in Responses : response' = r
          /\ pc' = "processed"
          /\ UNCHANGED << raised, error, outcome >>
       \/ /\ Propagate(Exc("ocr.process"))
          /\ UNCHANGED response
    /\ UNCHANGED << entry, opts, suffix, pdf_uploaded, pending,
                    uploaded_file, response_dict, dirs, fs, image_map,
                    image_count, img_idx, result, stdout, warnings >>

(***************************************************************************)
(* process_pdf                                                             *)
(***************************************************************************)
\* pdf_path.read_bytes(), evaluated before the upload is issued
PdfRead ==
    /\ pc = "pdf_read"
    /\ \E ok \in BOOLEAN :
        IF ok THEN pc' = "pdf_upload" /\ UNCHANGED << raised, error, outcome >>
        ELSE Propagate(Exc("read_bytes"))
    /\ UNCHANGED << entry, opts, suffix, calls, pdf_uploaded, pending,
                    uploaded_file, response, response_dict, dirs, fs,
                    image_map, image_count, img_idx, result, stdout,
                    warnings >>

\* client.files.upload
PdfUpload ==
    /\ pc = "pdf_upload"
    /\ calls' = Append(calls, "upload")
    /\ \E ok \in BOOLEAN :
        IF ok
        THEN /\ pdf_uploaded' = TheFile
             /\ pc' = "pdf_signed_url"
             /\ UNCHANGED << raised, error, outcome >>
        ELSE /\ Propagate(Exc("files.upload"))
             /\ UNCHANGED pdf_uploaded
    /\ UNCHANGED << entry, opts, suffix, pending, uploaded_file, response,
                    response_dict, dirs, fs, image_map, image_count, img_idx,
                    result, stdout, warnings >>

\* client.files.get_signed_url
PdfSignedUrl ==
    /\ pc = "pdf_signed_url"
    /\ calls' = Append(calls, "signed_url")
    /\ \E ok \in BOOLEAN :
        IF ok THEN pc' = "pdf_ocr" /\ UNCHANGED pending
        ELSE pc' = "pdf_except" /\ pending' = Exc("files.get_signed_url")
    /\ UNCHANGED << entry, opts, suffix, pdf_uploaded, raised, uploaded_file,
                    response, response_dict, dirs, fs, image_map,
                    image_count, img_idx, result, stdout, error, warnings,
                    outcome >>

\* client.ocr.process(document=DocumentURLChunk(...)); on success the
\* caller binds response, uploaded_file
PdfOcr ==
    /\ pc = "pdf_ocr"
    /\ calls' = Append(calls, "ocr")
    /\ \/ /\ \E r \in Responses : response' = r
          /\ uploaded_file' = pdf_uploaded
          /\ pc' = "processed"
          /\ UNCHANGED pending
       \/ /\ pc' = "pdf_except"
          /\ pending' = Exc("ocr.process")
          /\ UNCHANGED << response, uploaded_file >>
    /\ UNCHANGED << entry, opts, suffix, pdf_uploaded, raised, response_dict,
                    dirs, fs, image_map, image_count, img_idx, result,
                    stdout, error, warnings, outcome >>

\* the inner handler, lines 99-104: delete the upload, then raise e; an
\* exception of the delete leaves the handler in place of e
PdfExcept ==
    /\ pc = "pdf_except"
    /\ IF pdf_uploaded # None
       THEN /\ calls' = Append(calls, "delete")
            /\ \E ok \in BOOLEAN :
                Propagate(IF ok THEN pending ELSE Exc("files.delete"))
       ELSE /\ Propagate(pending)
            /\ UNCHANGED calls
    /\ UNCHANGED << entry, opts, suffix, pdf_uploaded, pending,
                    uploaded_file, response, response_dict, dirs, fs,
                    image_map, image_count, img_idx, result, stdout,
                    warnings >>

(***************************************************************************)
(* ocr_pdf, lines 346-368: from the response to the saved output.          *)
(***************************************************************************)
\* variants of the cleanup condition: only after a run without error; for
\* every upload, also the one process_pdf has already deleted
cleanup_only_on_success == uploaded_file # None /\ error = None
cleanup_for_every_upload == pdf_uploaded # None

\* if uploaded_file: (ocr_pdf line 376, process_file line 99)
cleanup_needed == uploaded_file # None

\* an exception inside the try block: wrapped by the handler, cleanup next
Fail(exc) == pc' = "finally" /\ error' = exc

\* json.loads(response.model_dump_json())
CliParse ==
    /\ entry = "cli" /\ pc = "processed"
    /\ \E ok \in BOOLEAN :
        IF ok
        THEN /\ response_dict' = response
             /\ pc' = IF Truthy(opts.output_dir) THEN "mkdir" ELSE "images"
             /\ UNCHANGED error
        ELSE Fail(Exc("model_dump_json")) /\ UNCHANGED response_dict
    /\ UNCHANGED << entry, opts, suffix, calls, pdf_uploaded, pending,
                    raised, uploaded_file, response, dirs, fs, image_map,
                    image_count, img_idx, result, stdout, warnings, outcome >>

\* Path(output_dir).mkdir(parents=True, exist_ok=True)
CliMkdir ==
    /\ entry = "cli" /\ pc = "mkdir"
    /\ \E ok \in BOOLEAN :
        IF ok
        THEN dirs' = dirs \cup {StrOf(opts.output_dir)} /\ pc' = "images" /\ UNCHANGED error
        ELSE Fail(Exc("mkdir")) /\ UNCHANGED dirs
    /\ UNCHANGED << entry, opts, suffix, calls, pdf_uploaded, pending,
                    raised, uploaded_file, response, response_dict, fs,
                    image_map, image_count, img_idx, result, stdout,
                    warnings, outcome >>

WriteFile(path, content) ==
    fs' = [q \in DOMAIN fs \cup {path} |-> IF q = path THEN content ELSE fs[q]]

ExtractBranch == opts.extract_images /\ Truthy(opts.output_dir)

\* variant whose handler logs the failed write without raising it again:
\* the caller goes on to generate and save the output
ExtractStep_swallows_write_error ==
    /\ entry = "cli" /\ pc = "images" /\ ExtractBranch
    /\ img_idx <= Len(AllImages(response_dict.pages))
    /\ LET plan == ExtractPlan(AllImages(response_dict.pages)[img_idx])
           path == PathJoin(StrOf(opts.output_dir), plan.name)
       IN IF plan.kind = "skip"
          THEN /\ img_idx' = img_idx + 1
               /\ UNCHANGED << pc, fs, image_map, image_count, error >>
          ELSE IF plan.kind = "raise"
          THEN /\ Fail(plan.exc)
               /\ UNCHANGED << fs, image_map, image_count, img_idx >>
          ELSE \E ok \in BOOLEAN :
                 IF ~ok
                 THEN /\ pc' = "generate" /\ error' = Exc("OSError")
                      /\ UNCHANGED << fs, image_map, image_count, img_idx >>
                 ELSE IF plan.bad
                 THEN /\ WriteFile(path, <<"bytes", <<>> >>)
                      /\ Fail(Exc("binascii.Error")) \* the file is already open
                      /\ UNCHANGED << image_map, image_count, img_idx >>
                 ELSE /\ WriteFile(path, <<"bytes", plan.bytes>>)
                      /\ image_map' = DictSet(image_map, Str(plan.name), plan.name)
                      /\ image_count' = image_count + 1
                      /\ img_idx' = img_idx + 1
                      /\ UNCHANGED << pc, error >>
    /\ UNCHANGED << entry, opts, suffix, calls, pdf_uploaded, pending,
                    raised, uploaded_file, response, response_dict, dirs,
                    result, stdout, warnings, outcome >>

\* extract_images_to_dir: one iteration of the inner loop
ExtractStep ==
    /\ entry = "cli" /\ pc = "images" /\ ExtractBranch
    /\ img_idx <= Len(AllImages(response_dict.pages))
    /\ LET plan == ExtractPlan(AllImages(response_dict.pages)[img_idx])
           path == PathJoin(StrOf(opts.output_dir), plan.name)
       IN IF plan.kind = "skip"
          THEN /\ img_idx' = img_idx + 1
               /\ UNCHANGED << pc, fs, image_map, image_count, error >>
          ELSE IF plan.kind = "raise"
          THEN /\ Fail(plan.exc)
               /\ UNCHANGED << fs, image_map, image_count, img_idx >>
          ELSE \E ok \in BOOLEAN :
                 IF ~ok
                 THEN /\ Fail(Exc("OSError"))       \* open() fails
                      /\ UNCHANGED << fs, image_map, image_count, img_idx >>
                 ELSE IF plan.bad
                 THEN /\ WriteFile(path, <<"bytes", <<>> >>)
                      /\ Fail(Exc("binascii.Error")) \* the file is already open
                      /\ UNCHANGED << image_map, image_count, img_idx >>
                 ELSE /\ WriteFile(path, <<"bytes", plan.bytes>>)
                      /\ image_map' = DictSet(image_map, Str(plan.name), plan.name)
                      /\ image_count' = image_count + 1
                      /\ img_idx' = img_idx + 1
                      /\ UNCHANGED << pc, error >>
    /\ UNCHANGED << entry, opts, suffix, calls, pdf_uploaded, pending,
                    raised, uploaded_file, response, response_dict, dirs,
                    result, stdout, warnings, outcome >>

\* extract_images_to_dir returns image_map
ExtractDone ==
    /\ entry = "cli" /\ pc = "images" /\ ExtractBranch
    /\ img_idx > Len(AllImages(response_dict.pages))
    /\ pc' = "generate"
    /\ UNCHANGED << entry, opts, suffix, calls, pdf_uploaded, pending,
                    raised, uploaded_file, response, response_dict, dirs, fs,
                    image_map, image_count, img_idx, result, stdout, error,
                    warnings, outcome >>

\* image_map = create_inline_image_map(response_dict)
CliInline ==
    /\ entry = "cli" /\ pc = "images" /\ ~ExtractBranch /\ opts.inline_images
    /\ LET r == create_inline_image_map(response_dict)
       IN IF r.exc # None
          THEN Fail(r.exc) /\ UNCHANGED image_map
          ELSE image_map' = r.map /\ pc' = "generate" /\ UNCHANGED error
    /\ UNCHANGED << entry, opts, suffix, calls, pdf_uploaded, pending,
                    raised, uploaded_file, response, response_dict, dirs, fs,
                    image_count, img_idx, result, stdout, warnings, outcome >>

\* neither branch: image_map stays {}
CliNoImages ==
    /\ entry = "cli" /\ pc = "images" /\ ~ExtractBranch /\ ~opts.inline_images
    /\ pc' = "generate"
    /\ UNCHANGED << entry, opts, suffix, calls, pdf_uploaded, pending,
                    raised, uploaded_file, response, response_dict, dirs, fs,
                    image_map, image_count, img_idx, result, stdout, error,
                    warnings, outcome >>

\* result = generate_output_content(response_dict, output_format, image_map)
CliGenerate ==
    /\ entry = "cli" /\ pc = "generate"
    /\ IF generate_output_raises(response_dict, output_format, image_map)
       THEN Fail(Exc("re.sub")) /\ UNCHANGED result
       ELSE /\ result' = Str(generate_output_content(response_dict, output_format, image_map))
            /\ pc' = "save"
            /\ UNCHANGED error
    /\ UNCHANGED << entry, opts, suffix, calls, pdf_uploaded, pending,
                    raised, uploaded_file, response, response_dict, dirs, fs,
                    image_map, image_count, img_idx, stdout, warnings,
                    outcome >>

\* the path save_output writes to, None for standard output
save_output_path(output_fmt, output_dir, output_file) ==
    IF Truthy(output_dir)
    THEN Str(PathJoin(StrOf(output_dir),
                      IF output_fmt = "html" THEN "index.html" ELSE "README.md"))
    ELSE IF Truthy(output_file) THEN output_file
    ELSE None

\* save_output(result, output_format, output_dir, output, silent)
CliSave ==
    /\ entry = "cli" /\ pc = "save"
    /\ LET path == save_output_path(output_format, opts.output_dir, opts.output)
       IN IF path = None
          THEN /\ stdout' = result
               /\ pc' = "finally"
               /\ UNCHANGED << fs, error >>
          ELSE \E ok \in BOOLEAN :
                 IF ok
                 THEN /\ WriteFile(StrOf(path), <<"text", StrOf(result)>>)
                      /\ pc' = "finally"
                      /\ UNCHANGED << stdout, error >>
                 ELSE Fail(Exc("write_text")) /\ UNCHANGED << fs, stdout >>
    /\ UNCHANGED << entry, opts, suffix, calls, pdf_uploaded, pending,
                    raised, uploaded_file, response, response_dict, dirs,
                    image_map, image_count, img_idx, result, warnings,
                    outcome >>

\* the cleanup block, lines 373-386: a failing delete is a warning
CliFinally ==
    /\ entry = "cli" /\ pc = "finally"
    /\ IF cleanup_needed
       THEN /\ calls' = Append(calls, "delete")
            /\ \E ok \in BOOLEAN : warnings' = IF ok THEN warnings ELSE warnings + 1
       ELSE UNCHANGED << calls, warnings >>
    /\ pc' = "done"
    /\ outcome' = IF error = None THEN "success" ELSE "error"
    /\ UNCHANGED << entry, opts, suffix, pdf_uploaded, pending, raised,
                    uploaded_file, response, response_dict, dirs, fs,
                    image_map, image_count, img_idx, result, stdout, error >>

(***************************************************************************)
(* process_file, lines 85-103                                              *)
(***************************************************************************)
\* the try block: parse, generate with the empty map, return result
WebGenerate ==
    /\ entry = "web" /\ pc = "processed"
    /\ \E ok \in BOOLEAN :
        IF ok
        THEN /\ response_dict' = response
             /\ result' = Str(generate_output_content(response, output_format, <<>>))
             /\ UNCHANGED error
        ELSE /\ error' = Exc("model_dump_json")
             /\ UNCHANGED << response_dict, result >>
    /\ pc' = "finally"
    /\ UNCHANGED << entry, opts, suffix, calls, pdf_uploaded, pending,
                    raised, uploaded_file, response, dirs, fs, image_map,
                    image_count, img_idx, stdout, warnings, outcome >>

\* the finally block: the delete is not guarded, its exception replaces
\* the pending return or exception and reaches the outer handler
WebFinally ==
    /\ entry = "web" /\ pc = "finally"
    /\ IF cleanup_needed
       THEN /\ calls' = Append(calls, "delete")
            /\ \E ok \in BOOLEAN :
                IF ok
                THEN Finish(IF error = None THEN "success" ELSE "error", error)
                ELSE Finish("error", Exc("files.delete"))
       ELSE /\ Finish(IF error = None THEN "success" ELSE "error", error)
            /\ UNCHANGED calls
    /\ UNCHANGED << entry, opts, suffix, pdf_uploaded, pending, raised,
                    uploaded_file, response, response_dict, dirs, fs,
                    image_map, image_count, img_idx, result, stdout,
                    warnings >>

Next ==
    \/ CliValidate \/ WebStart
    \/ ImageRead \/ ImageOcr
    \/ PdfRead \/ PdfUpload \/ PdfSignedUrl \/ PdfOcr \/ PdfExcept
    \/ CliParse \/ CliMkdir \/ ExtractStep \/ ExtractDone \/ CliInline
    \/ CliNoImages \/ CliGenerate \/ CliSave \/ CliFinally
    \/ WebGenerate \/ WebFinally

Spec == Init /\ [][Next]_vars

(***************************************************************************)
(* generate_output_content as a function of its three arguments: the       *)
(* inputs are drawn at the start, one step applies the function.           *)
(***************************************************************************)
\* number of entries of an image map
MaxMapLen == 2

GenIds == {"a.png", "b.png", "zz.png"}
GenSrcs == GenIds \cup {"data:image/png;base64,QUJD", "c\\d.png"}

GenTexts ==
    { "![x](a.png)",
      "# T\n![x](a.png) and ![y](b.png)",
      "![p](axpng) ![q](a.png) ![r](zz.png)" }

GenResponses ==
    { [pages |-> << [markdown |-> t, images |-> <<>>] >>] : t \in GenTexts }
    \cup { [pages |-> << [markdown |-> "![x](a.png)",
                          images |-> << Image(Str("a.png"), Str("QUJD")) >>],
                         [markdown |-> "![y](b.png)", images |-> <<>>] >>] }

\* the maps with at most MaxMapLen entries and distinct keys
GenMaps ==
    { m \in SeqsUpTo({<<Str(k), v>> : k \in GenIds, v \in GenSrcs}, MaxMapLen) :
        \A i, j \in 1..Len(m) : i # j => m[i][1] # m[j][1] }

InitGenerate ==
    /\ entry = "lib"
    /\ opts \in [ api_key : {None}, output : {None}, output_dir : {None},
                  json_ : {FALSE}, html : {FALSE},
                  inline_images : {FALSE}, extract_images : {FALSE},
                  output_format : {Str("markdown"), Str("html"), Str("json")} ]
    /\ suffix = ""
    /\ pc = "generate"
    /\ calls = <<>>
    /\ pdf_uploaded = None
    /\ pending = None
    /\ raised = None
    /\ uploaded_file = None
    /\ response \in GenResponses
    /\ response_dict = response
    /\ dirs = {}
    /\ fs = EmptyFs
    /\ image_map \in GenMaps
    /\ image_count = 0
    /\ img_idx = 1
    /\ result = None
    /\ stdout = None
    /\ error = None
    /\ warnings = 0
    /\ outcome = "running"

\* a call of generate_output_content(response_dict, output_format, image_map)
LibGenerate ==
    /\ entry = "lib" /\ pc = "generate"
    /\ IF generate_output_raises(response_dict, output_format, image_map)
       THEN /\ Finish("error", Exc("re.sub"))
            /\ UNCHANGED result
       ELSE /\ result' = Str(generate_output_content(response_dict, output_format, image_map))
            /\ Finish("success", None)
    /\ UNCHANGED << entry, opts, suffix, calls, pdf_uploaded, pending, raised,
                    uploaded_file, response, response_dict, dirs, fs, image_map,
                    image_count, img_idx, stdout, warnings >>

NextGenerate == LibGenerate

SpecGenerate == InitGenerate /\ [][NextGenerate]_vars

(***************************************************************************)
(* Properties                                                              *)
(***************************************************************************)
NumCalls(c) == Cardinality({i \in 1..Len(calls) : calls[i] = c})

\* C1: once the upload of the document path has succeeded, the delete of
\* the uploaded object is attempted at most once at any time and exactly
\* once by the end of the invocation, however the run ends.
C1_DeleteExactlyOnce ==
    pdf_uploaded # None =>
        /\ NumCalls("delete") <= 1
        /\ pc = "done" => NumCalls("delete") = 1

\* a run in which the OCR call failed inside process_pdf has ended
C1_Witness ==
    /\ pc = "done" /\ entry = "cli"
    /\ pdf_uploaded # None /\ pending = Exc("ocr.process")
    /\ NumCalls("delete") = 1

\* C2: the exception that leaves process_pdf after a failed signed-URL
\* fetch or OCR submission is the original exception, whatever the delete
\* of the uploaded object did.
C2_OriginalErrorReraised ==
    (raised # None /\ pending # None) =>
        /\ raised = pending
        /\ calls[Len(calls)] = "delete"

\* the artifact of the invocation exists: printed or written by save_output
\* (CLI), computed and about to be returned (web)
ArtifactProduced ==
    /\ result # None
    /\ entry = "cli" =>
        \/ stdout = result
        \/ \E q \in DOMAIN fs : fs[q][1] = "text" /\ fs[q][2] = StrOf(result)

\* C3: in both entry points an invocation whose OCR call succeeded and
\* whose artifact was produced ends as a success, also when the delete of
\* the uploaded object fails.
C3_DeleteFailureNeverEscalates ==
    (pc = "done" /\ entry \in {"cli", "web"} /\ ArtifactProduced) =>
        outcome = "success" /\ error = None

\* an option counts as given when it has a non-empty value
Given(v) == v # None /\ v # Str("")

RuleViolated ==
    \/ ~Given(opts.api_key)
    \/ Given(opts.output) /\ Given(opts.output_dir)
    \/ opts.json_ /\ Given(opts.output_dir)
    \/ opts.extract_images /\ ~Given(opts.output_dir)
    \/ opts.inline_images /\ opts.extract_images

ValidationErrors ==
    { Exc("No API key provided"),
      Exc("Cannot specify both --output and --output-dir"),
      Exc("JSON output is not supported with --output-dir"),
      Exc("--extract-images requires --output-dir"),
      Exc("Cannot specify both --inline-images and --extract-images") }

\* C4: a CLI invocation ends in a validation error, with no network call
\* issued and no directory or file created, exactly when one of the five
\* rules is violated; otherwise validation passes and processing starts.
C4_ValidationIffRuleViolated ==
    (entry = "cli" /\ pc # "start") =>
        IF RuleViolated
        THEN /\ pc = "done" /\ outcome = "error" /\ error \in ValidationErrors
             /\ calls = <<>> /\ dirs = {} /\ DOMAIN fs = {}
        ELSE error \notin ValidationErrors

\* --json with --output-dir, every other rule kept
C4_Witness ==
    /\ entry = "cli" /\ pc = "done"
    /\ opts.json_ /\ Given(opts.output_dir) /\ Given(opts.api_key)
    /\ ~Given(opts.output) /\ ~opts.extract_images
    /\ error = Exc("JSON output is not supported with --output-dir")

CallRank(c) ==
    CASE c = "upload" -> 1 [] c = "signed_url" -> 2 [] c = "ocr" -> 3 [] c = "delete" -> 4

\* C5: the network calls of an invocation follow the order upload,
\* signed-URL fetch, OCR submission, deletion, none is issued twice, a
\* call is issued only after the ones it depends on; an image input issues
\* the OCR submission only.
C5_CallsInOrder ==
    /\ \A i, j \in 1..Len(calls) : i < j => CallRank(calls[i]) < CallRank(calls[j])
    /\ \A i \in 1..Len(calls) :
        /\ calls[i] = "signed_url" => i > 1 /\ calls[i - 1] = "upload"
        /\ calls[i] = "delete" => calls[1] = "upload"
    /\ Lower(suffix) \in {".png", ".jpg", ".jpeg"} =>
        \A i \in 1..Len(calls) : calls[i] = "ocr"
    /\ Lower(suffix) \notin {".png", ".jpg", ".jpeg"} =>
        \A i \in 1..Len(calls) : calls[i] = "ocr" => i > 1 /\ calls[i - 1] = "signed_url"

\* a document run that issued all four calls
C5_Witness ==
    pc = "done" /\ calls = <<"upload", "signed_url", "ocr", "delete">>

\* the image link ![alt](id) stands at position s of text, its "](" at e;
\* the alt text is on one line and has no bracket
ImageLinkAt(text, id, s, e) ==
    /\ OccursAt(text, "![", s) /\ e >= s + 2
    /\ OccursAt(text, "](" \o id \o ")", e)
    /\ \A i \in (s + 2)..(e - 1) : CharAt(text, i) \notin {"[", "]", "\n"}

\* the alt texts of the image links to id in text
AltsOf(text, id) ==
    { SubSeq(text, p[1] + 2, p[2] - 1) :
        p \in {q \in (1..Len(text)) \X (1..Len(text)) :
                 ImageLinkAt(text, id, q[1], q[2])} }

LinkTargets == GenIds \cup {"axpng"}

\* C6: for every response and image map the markdown output exists, every
\* image link ![alt](id) of the page text whose id is a key of the map has
\* become ![alt](resolved) and id is no longer a link target (unless
\* resolved = id); links to other identifiers are unchanged.
C6_MappedLinksResolved ==
    (entry = "lib" /\ pc = "done" /\ output_format = "markdown") =>
        /\ result # None
        /\ \A i \in 1..Len(image_map) :
             LET id == StrOf(image_map[i][1])
                 resolved == image_map[i][2]
             IN \A alt \in AltsOf(JoinPages(response_dict.pages), id) :
                  /\ Contains(StrOf(result), "![" \o alt \o "](" \o resolved \o ")")
                  /\ resolved # id => ~Contains(StrOf(result), "](" \o id \o ")")
        /\ \A id \in LinkTargets :
             Str(id) \notin DictKeys(image_map) =>
                 \A alt \in AltsOf(JoinPages(response_dict.pages), id) :
                     Contains(StrOf(result), "![" \o alt \o "](" \o id \o ")")

\* the image entries of the parsed response with a string identifier and
\* string data
CompleteImages ==
    LET imgs == AllImages(response_dict.pages)
    IN {imgs[i] : i \in {j \in 1..Len(imgs) : IsStr(imgs[j].id) /\ IsStr(imgs[j].image_base64)}}

RecognizedExts == {"png", "jpg", "jpeg", "gif", "webp", "bmp"}

\* the MIME type the inline mode is to infer from an identifier
InferredMime(id) ==
    IF Contains(id, ".") /\ Lower(SplitLast(id, ".")) \in RecognizedExts
    THEN "image/" \o Lower(SplitLast(id, "."))
    ELSE "image/jpeg"

InlineDone == entry = "cli" /\ pc = "generate" /\ ~ExtractBranch /\ opts.inline_images

\* C7: after the inline map is built, the value of every image with an
\* identifier and data is the data itself when it is a data URI, and
\* otherwise data:<mime>;base64,<data> with <mime> inferred from the
\* extension, image/jpeg when the extension is missing or not recognized.
C7_InlineDataUri ==
    InlineDone =>
        \A img \in CompleteImages :
            /\ DictHas(image_map, img.id)
            /\ DictGet(image_map, img.id) =
                 IF StartsWith(StrOf(img.image_base64), "data:")
                 THEN StrOf(img.image_base64)
                 ELSE "data:" \o InferredMime(StrOf(img.id)) \o ";base64,"
                          \o StrOf(img.image_base64)

\* the image handling of the CLI has run to its end on the parsed response
ImagesHandled ==
    /\ entry = "cli" /\ pc = "generate"
    /\ ExtractBranch \/ opts.inline_images

\* the files extract mode wrote
ImageFiles == {q \in DOMAIN fs : fs[q][1] = "bytes"}

\* C8: an image entry without identifier or without data (absent or null)
\* is skipped in both modes: the image handling raises no error for it, the
\* map has exactly the identifiers of the other entries, extract mode
\* writes and counts exactly the other entries.
C8_IncompleteEntriesSkipped ==
    /\ (entry = "cli" /\ pc \in {"finally", "done"}) =>
            error \notin {Exc("AttributeError"), Exc("TypeError")}
    /\ ImagesHandled =>
        /\ DictKeys(image_map) = {img.id : img \in CompleteImages}
        /\ ExtractBranch =>
            /\ ImageFiles = {PathJoin(StrOf(opts.output_dir), StrOf(img.id)) :
                               img \in CompleteImages}
            /\ image_count =
                 Cardinality({i \in 1..Len(AllImages(response_dict.pages)) :
                                AllImages(response_dict.pages)[i] \in CompleteImages})

\* the data without a leading data:...;base64, prefix
WithoutDataPrefix(data) ==
    IF StartsWith(data, "data:") /\ Contains(data, ";base64,")
    THEN SplitAfterFirst(data, ";base64,")
    ELSE data

\* C9: when the extraction has finished, the written image files are
\* exactly the files named as the identifiers of the images with data,
\* each identifier maps to itself, and each file holds the base64 decoding
\* of the data after any data:...;base64, prefix is stripped.
C9_ExtractBijectionRoundTrip ==
    (entry = "cli" /\ pc = "generate" /\ ExtractBranch) =>
        /\ ImageFiles = {PathJoin(StrOf(opts.output_dir), StrOf(img.id)) :
                           img \in CompleteImages}
        /\ \A img \in CompleteImages :
            LET path == PathJoin(StrOf(opts.output_dir), StrOf(img.id))
            IN /\ DictHas(image_map, img.id)
               /\ DictGet(image_map, img.id) = StrOf(img.id)
               /\ path \in DOMAIN fs
               /\ fs[path] = <<"bytes", b64decode(WithoutDataPrefix(StrOf(img.image_base64)))>>

\* C10: with format json the result is the same text as with the empty
\* map, the serialization of the original response, and the response is
\* left as it was.
C10_JsonIgnoresImageMap ==
    (entry = "lib" /\ pc = "done" /\ output_format = "json") =>
        /\ outcome = "success"
        /\ result = Str(generate_output_content(response_dict, "json", <<>>))
        /\ result = Str(JsonDumps(response))
        /\ response_dict = response

\* json output was generated with a map whose first key is linked in the
\* page text
C10_Witness ==
    /\ entry = "lib" /\ pc = "done" /\ output_format = "json"
    /\ result # None
    /\ Len(image_map) = MaxMapLen
    /\ image_map[1] = <<Str("a.png"), "data:image/png;base64,QUJD">>
    /\ AltsOf(JoinPages(response_dict.pages), "a.png") # {}

\* the write of the image entry at img_idx failed in extract_images_to_dir
\* and the exception has left it
ImageWriteFailed ==
    /\ entry = "cli" /\ ExtractBranch
    /\ pc \in {"generate", "save", "finally", "done"}
    /\ error = Exc("OSError")

\* the positions before img_idx whose image entry was written
WrittenBefore ==
    {i \in 1..(img_idx - 1) : ExtractPlan(AllImages(response_dict.pages)[i]).kind = "write"}

\* C11: when the write of the k-th image fails, the exception leaves
\* extract_images_to_dir: the image files on disk are exactly the ones
\* written before the k-th, with their content (none after it, no
\* rollback), the main artifact is neither generated, written nor printed,
\* the invocation ends with an error, and the delete of an uploaded object
\* is still attempted, once.
C11_ImageWriteFailureAborts ==
    ImageWriteFailed =>
        LET imgs == AllImages(response_dict.pages)
        IN /\ pc \in {"finally", "done"}
           /\ ImageFiles = {PathJoin(StrOf(opts.output_dir), ExtractPlan(imgs[i]).name) :
                              i \in WrittenBefore}
           /\ \A i \in WrittenBefore :
                \E j \in WrittenBefore :
                    /\ ExtractPlan(imgs[j]).name = ExtractPlan(imgs[i]).name
                    /\ fs[PathJoin(StrOf(opts.output_dir), ExtractPlan(imgs[i]).name)]
                         = <<"bytes", ExtractPlan(imgs[j]).bytes>>
           /\ image_count = Cardinality(WrittenBefore)
           /\ result = None /\ stdout = None
           /\ \A q \in DOMAIN fs : fs[q][1] # "text"
           /\ pc = "done" =>
                /\ outcome = "error"
                /\ uploaded_file # None => NumCalls("delete") = 1
                /\ uploaded_file = None => NumCalls("delete") = 0

\* a document run ended after the write of the second image failed: one
\* image is on disk, one more image entry was never reached
C11_Witness ==
    /\ ImageWriteFailed /\ pc = "done"
    /\ img_idx = 2 /\ Cardinality(ImageFiles) = 1
    /\ \E i \in (img_idx + 1)..Len(AllImages(response_dict.pages)) :
         ExtractPlan(AllImages(response_dict.pages)[i]).kind = "write"
    /\ uploaded_file # None /\ NumCalls("delete") = 1
    /\ outcome = "error"

====
